---- MODULE Spec2Model ----
(***************************************************************************)
(* Collaborative terminal replication of crates/project/src/terminals.rs:  *)
(* the host's terminal registry (Terminals.local_handles), the directory   *)
(* each guest caches (Terminals.remote_ids), the UpdateTerminals and       *)
(* OpenTerminal messages between them, and the screen state of the host's   *)
(* terminals next to the copies a guest holds.                             *)
(***************************************************************************)
EXTENDS Integers, Sequences, FiniteSets, TLC

\* ------------------------------------------------------------------ bounds
\* Number of terminals (gpui entities) that may be created in one run.
MaxTerminals == 2
\* Capacity of the message queues of the model.
MaxInFlight == 2

\* ------------------------------------------------------------ participants
\* client_a builds the local project and shares it; the others join it as guests.
Host == "a"
Guests == {"b", "c"}
Projects == {Host} \cup Guests
\* The guest whose window opens remote terminal views (client_b of the test).
Viewers == {"b"}

None == "None"
\* The id the server gave the shared project (Project::remote_id() == Some).
SharedId == "Some(project_id)"

\* Entity ids a terminal can get, and the ids a caller may put in a request
\* (one more than can be created, so a never-created id is among them).
EntityIds == 1..MaxTerminals
RequestIds == 0..(MaxTerminals + 1)

VARIABLES
    local_handles,   \* [Projects -> Seq(id)]: Terminals.local_handles (weak handles)
    remote_ids,      \* [Projects -> Seq(id)]: Terminals.remote_ids
    alive,           \* entity ids that still have a strong handle (upgrade succeeds)
    observers,       \* <<project, id>>: release observers registered and not yet run
    next_entity_id,  \* the id the next cx.add_model gives
    remote_id,       \* [Projects -> {None, SharedId}]: Project::remote_id()
    collaborators,   \* the guests that joined the project: who a broadcast reaches
    update_terminals,\* [Guests -> Seq(UpdateTerminals)]: directory updates in flight
    open_terminal,   \* Seq(OpenTerminal): requests in flight to the host
    panicked,        \* [Projects -> BOOLEAN]: the participant hit a panic (todo!())
    last,            \* what the last call or handler did and returned
    content,         \* [EntityIds -> Nat]: host terminal's last_content (inputs typed)
    frames,          \* [Guests -> Seq(message)]: screen states in flight to a guest
    views            \* [Guests -> [id -> content]]: the remote terminals a guest holds

vars == <<local_handles, remote_ids, alive, observers, next_entity_id, remote_id,
          collaborators, update_terminals, open_terminal, panicked, last,
          content, frames, views>>

registryVars == <<local_handles, alive, observers, next_entity_id>>
\* The terminals' screen states: the host's, the copies on their way to the
\* guests and the copies the guests hold. Under terminals.rs only the host's
\* changes: no message of the protocol carries a screen state and no call
\* gives a guest a remote terminal (open_remote_terminal ends in todo!()).
frameVars == <<content, frames, views>>

\* ----------------------------------------------------------------- helpers
\* A create_terminal that takes every project for a local one.
IsRemoteNever(p) == FALSE

\* Project::is_remote(): a guest's project is a remote project.
IsRemote(p) == p \in Guests

\* `handle.id() as TerminalId`: usize to u64, which loses nothing on any target.
AsTerminalId(entity_id) == entity_id

\* A cast of the received id to a type too narrow for it.
AsUsizeNarrow(terminal_id) == terminal_id % 2

\* `envelope.payload.id as usize`: u64 to usize, the same width on the 64-bit
\* targets the program is built for, so no id is truncated.
AsUsize(terminal_id) == terminal_id

\* A snapshot of the entries whose terminal is alive only.
SnapshotLive(handles) == SelectSeq(handles, LAMBDA handle : handle \in alive)

\* local_handles.iter().map(|handle| handle.id() as TerminalId).collect():
\* one id per registry entry, in registry order, live or not.
RECURSIVE MapIds(_, _)
MapIds(handles, i) ==
    IF i > Len(handles) THEN <<>>
    ELSE <<AsTerminalId(handles[i])>> \o MapIds(handles, i + 1)

Snapshot(handles) == MapIds(handles, 1)

\* A registry whose handles upgrade whether or not the terminal is alive.
UpgradeAlways(handle, live) == <<handle>>

\* handle.upgrade(cx): a strong handle while the entity is alive, else nothing.
\* (An Option of a handle is <<handle>> for Some(handle) and <<>> for None.)
Upgrade(handle, live) == IF handle \in live THEN <<handle>> ELSE <<>>

\* local_handles.iter().find_map(|handle| if handle.id() == terminal_id
\*     { Some(handle.upgrade(cx)?) } else { None }): the first entry with the id
\* that upgrades; an entry with the id that does not upgrade is passed over.
RECURSIVE FindMap(_, _, _, _)
FindMap(handles, terminal_id, live, i) ==
    IF i > Len(handles) THEN <<>>
    ELSE IF handles[i] = terminal_id /\ Upgrade(handles[i], live) # <<>>
         THEN Upgrade(handles[i], live)
         ELSE FindMap(handles, terminal_id, live, i + 1)

Lookup(handles, terminal_id, live) == FindMap(handles, terminal_id, live, 1)

\* handles.iter().position(|terminal| terminal.id() == id): the first index
\* whose entry has the id, 0 for Option::None.
RECURSIVE PositionFrom(_, _, _)
PositionFrom(handles, id, i) ==
    IF i > Len(handles) THEN 0
    ELSE IF handles[i] = id THEN i
    ELSE PositionFrom(handles, id, i + 1)

Position(handles, id) == PositionFrom(handles, id, 1)

\* Vec::remove(index): the entries before and after index, in order.
Remove(handles, index) ==
    [k \in 1..(Len(handles) - 1) |->
        IF k < index THEN handles[k] ELSE handles[k + 1]]

\* An observer that removes every entry with the id.
ReleaseRemoveAll(handles, id) == SelectSeq(handles, LAMBDA handle : handle # id)

\* An observer that leaves the registry as it is.
ReleaseRemoveNothing(handles, id) == handles

\* The observe_release callback's change of the registry.
ReleaseRemove(handles, id) ==
    IF Position(handles, id) # 0
    THEN Remove(handles, Position(handles, id))
    ELSE handles

\* A create_terminal that registers the new handle twice.
PushTwice(handles, handle) == Append(Append(handles, handle), handle)

\* A create_terminal that puts the new handle in front of the others.
PushFront(handles, handle) == <<handle>> \o handles

\* local_handles.push(terminal_handle.downgrade()): the new weak handle, last.
Push(handles, handle) == Append(handles, handle)

\* A handler that merges the payload into the cached directory.
ApplyUpdateMerge(cached, terminals) == cached \o terminals

\* Project::shared_terminals(): the cached directory.
shared_terminals(p) == remote_ids[p]

\* handle_update_terminals: this.terminals.remote_ids = envelope.payload.terminals
ApplyUpdate(cached, terminals) == terminals

\* The UpdateTerminals message create_terminal sends.
UpdateTerminals(project_id, handles) ==
    [project_id |-> project_id, terminals |-> Snapshot(handles)]

\* The OpenTerminal message open_remote_terminal sends.
OpenTerminal(sender, project_id, id) ==
    [sender |-> sender, project_id |-> project_id, id |-> id]

\* What a call or a handler did: the terminal id it was about (0 for none), its
\* result to the caller, whether it handed a message to the transport, and
\* whether it called cx.notify().
Outcome(op, by, id, ret, sent, notified) ==
    [op |-> op, by |-> by, id |-> id, ret |-> ret, sent |-> sent,
     notified |-> notified]

\* Room in the queues a step may append to: each guest's queue of directory
\* updates and the host's queue of OpenTerminal requests hold MaxInFlight
\* messages.
UpdateRoom == \A g \in collaborators : Len(update_terminals[g]) < MaxInFlight
OpenRoom == Len(open_terminal) < MaxInFlight

\* The elements of a sequence.
Range(seq) == {seq[i] : i \in DOMAIN seq}

\* -------------------------------------------------------------------- Init
\* A local project on the host with no terminal, not yet shared; the guests
\* are in the host's room and get what the host sends once it is shared.
Init ==
    /\ local_handles = [p \in Projects |-> <<>>]
    /\ remote_ids = [p \in Projects |-> <<>>]
    /\ alive = {}
    /\ observers = {}
    /\ next_entity_id = 1
    /\ remote_id = [p \in Projects |-> IF p = Host THEN None ELSE SharedId]
    /\ collaborators = Guests
    /\ update_terminals = [g \in Guests |-> <<>>]
    /\ open_terminal = <<>>
    /\ panicked = [p \in Projects |-> FALSE]
    /\ last = Outcome("new", Host, 0, "Ok", FALSE, FALSE)
    /\ content = [id \in {} |-> 0]
    /\ frames = [g \in Guests |-> <<>>]
    /\ views = [g \in Guests |-> [id \in {} |-> 0]]

\* The state after call.share_project and build_remote_project: the host's
\* project has a remote id and the guests have joined it.
InitShared ==
    /\ local_handles = [p \in Projects |-> <<>>]
    /\ remote_ids = [p \in Projects |-> <<>>]
    /\ alive = {}
    /\ observers = {}
    /\ next_entity_id = 1
    /\ remote_id = [p \in Projects |-> SharedId]
    /\ collaborators = Guests
    /\ update_terminals = [g \in Guests |-> <<>>]
    /\ open_terminal = <<>>
    /\ panicked = [p \in Projects |-> FALSE]
    /\ last = Outcome("new", Host, 0, "Ok", FALSE, FALSE)
    /\ content = [id \in {} |-> 0]
    /\ frames = [g \in Guests |-> <<>>]
    /\ views = [g \in Guests |-> [id \in {} |-> 0]]

\* ---------------------------------------------------------------- registry
\* cx.add_model: the id of a new entity, never one given before.
NewEntityId == next_entity_id

\* What create_terminal finds of a python virtual environment: detect_venv is
\* off, it is on and no directory has the activate script, or the script is
\* there.
VenvCases == {"off", "no_script", "script"}

\* settings.detect_venv.as_option(): the venv settings when detection is on.
python_settings(venv) == IF venv = "off" THEN <<>> ELSE <<venv>>

\* Project::find_activate_script_path: the path of the first activate script
\* that exists in the venv directories of the working directory, if any.
find_activate_script_path(settings) ==
    IF settings = "script" THEN <<"venv/bin/activate">> ELSE <<>>

\* Project::activate_python_virtual_environment: with a script, the command
\* "source <script>\n" is typed into the terminal (input_bytes), one more
\* input on its screen state; with none, nothing.
activate_python_virtual_environment(activate_script, state) ==
    IF activate_script # <<>> THEN state + 1 ELSE state

\* The screen state of the terminal create_terminal returns: that of a new
\* terminal, with the activate command typed into it when venv detection is
\* on and finds a script.
CreatedContent(venv) ==
    IF python_settings(venv) # <<>>
    THEN activate_python_virtual_environment(
             find_activate_script_path(python_settings(venv)[1]), 0)
    ELSE 0

\* A create_terminal that tells the guests of no terminal.
SendsNever(p) == FALSE

\* `if let Some(project_id) = self.remote_id()`: create_terminal sends the
\* UpdateTerminals message when the project has a remote id.
Sends(p) == remote_id[p] # None

\* Project::create_terminal. builder_ok: TerminalBuilder::new succeeded;
\* venv: what the venv detection finds; send_ok: client.send succeeded (its
\* error is only logged).
CreateTerminal(p, builder_ok, venv, send_ok) ==
    /\ ~panicked[p]
    /\ next_entity_id <= MaxTerminals
    /\ UpdateRoom
    /\ IF IsRemote(p) \/ ~builder_ok
       THEN /\ last' = Outcome("create_terminal", p, 0, "Err", FALSE, FALSE)
            /\ UNCHANGED <<registryVars, update_terminals, content>>
       ELSE LET id == NewEntityId
                handles == Push(local_handles[p], id)
                sends == Sends(p)
            IN  /\ local_handles' = [local_handles EXCEPT ![p] = handles]
                /\ alive' = alive \cup {id}
                /\ observers' = observers \cup {<<p, id>>}
                /\ next_entity_id' = next_entity_id + 1
                /\ content' = [x \in DOMAIN content \cup {id} |->
                                 IF x = id THEN CreatedContent(venv) ELSE content[x]]
                /\ update_terminals' =
                     IF sends /\ send_ok
                     THEN [g \in Guests |->
                             IF g \in collaborators
                             THEN Append(update_terminals[g],
                                         UpdateTerminals(remote_id[p], handles))
                             ELSE update_terminals[g]]
                     ELSE update_terminals
                /\ last' = Outcome("create_terminal", p, id, "Ok",
                                   sends /\ send_ok, FALSE)
    /\ UNCHANGED <<remote_ids, remote_id, collaborators, open_terminal, panicked,
                   frames, views>>

\* The last strong handle of a terminal is dropped (tab closed, process exit):
\* from now on its weak handle does not upgrade; its release is not yet observed.
DropTerminal(id) ==
    /\ id \in alive
    /\ ~panicked[Host]
    /\ alive' = alive \ {id}
    /\ last' = Outcome("drop", Host, id, "Ok", FALSE, FALSE)
    /\ UNCHANGED <<local_handles, remote_ids, observers, next_entity_id, remote_id,
                   collaborators, update_terminals, open_terminal, panicked, frameVars>>

\* `if let Some(ix) = position { .. cx.notify() }`: the release observer
\* notifies when the registry has an entry with the id.
ReleaseNotifies(handles, id) == Position(handles, id) # 0

\* The callback create_terminal gave to cx.observe_release, run once when the
\* terminal is released.
ReleaseObserver(p, id) ==
    /\ <<p, id>> \in observers
    /\ id \notin alive
    /\ ~panicked[p]
    /\ observers' = observers \ {<<p, id>>}
    /\ local_handles' = [local_handles EXCEPT ![p] = ReleaseRemove(@, id)]
    /\ last' = Outcome("observe_release", p, id, "Ok", FALSE,
                       ReleaseNotifies(local_handles[p], id))
    /\ UNCHANGED <<remote_ids, alive, next_entity_id, remote_id, collaborators,
                   update_terminals,
                   open_terminal, panicked, frameVars>>

\* call.share_project: the host's project gets its remote id.
ShareProject ==
    /\ remote_id[Host] = None
    /\ ~panicked[Host]
    /\ remote_id' = [remote_id EXCEPT ![Host] = SharedId]
    /\ last' = Outcome("share_project", Host, 0, "Ok", FALSE, FALSE)
    /\ UNCHANGED <<local_handles, remote_ids, alive, observers, next_entity_id,
                   collaborators, update_terminals, open_terminal, panicked, frameVars>>

\* --------------------------------------------------------------- directory
\* Project::handle_update_terminals on guest g, for the oldest message in flight.
HandleUpdateTerminals(g) ==
    /\ ~panicked[g]
    /\ update_terminals[g] # <<>>
    /\ remote_ids' = [remote_ids EXCEPT
                        ![g] = ApplyUpdate(@, Head(update_terminals[g]).terminals)]
    /\ update_terminals' = [update_terminals EXCEPT ![g] = Tail(@)]
    /\ last' = Outcome("handle_update_terminals", g, 0, "Ok", FALSE, TRUE)
    /\ UNCHANGED <<registryVars, remote_id, collaborators, open_terminal, panicked,
                   frameVars>>

\* ------------------------------------------------------------------ attach
\* Project::open_remote_terminal on guest g: client.send(OpenTerminal), whose
\* error is returned; after a successful send the function reaches todo!().
OpenRemoteTerminal(g, id, send_ok) ==
    /\ ~panicked[g]
    /\ OpenRoom
    /\ IF send_ok
       THEN /\ open_terminal' =
                 Append(open_terminal, OpenTerminal(g, remote_id[g], id))
            /\ panicked' = [panicked EXCEPT ![g] = TRUE]
            /\ last' = Outcome("open_remote_terminal", g, id, "panic", TRUE, FALSE)
       ELSE /\ last' = Outcome("open_remote_terminal", g, id, "Err", FALSE, FALSE)
            /\ UNCHANGED <<open_terminal, panicked>>
    /\ UNCHANGED <<registryVars, remote_ids, remote_id, collaborators, update_terminals, frameVars>>

\* A lookup that clears the entries of dropped terminals out of the registry.
PruneDead(handles) == SelectSeq(handles, LAMBDA handle : handle \in alive)

\* this.read_with(&cx, ..): the lookup borrows the project immutably, so the
\* registry after it is the registry before it.
AfterReadWith(handles) == handles

\* Project::handle_open_terminal on the host, for the oldest request in flight:
\* an error when the lookup finds no live terminal; with a terminal found, the
\* construction of OpenTerminalResponse reaches todo!().
HandleOpenTerminal ==
    /\ ~panicked[Host]
    /\ open_terminal # <<>>
    /\ LET request == Head(open_terminal)
           terminal_id == AsUsize(request.id)
           terminal == Lookup(local_handles[Host], terminal_id, alive)
       IN  IF terminal = <<>>
           THEN /\ last' = Outcome("handle_open_terminal", Host, terminal_id,
                                   "Err", FALSE, FALSE)
                /\ UNCHANGED panicked
           ELSE /\ last' = Outcome("handle_open_terminal", Host, terminal_id,
                                   "panic", FALSE, FALSE)
                /\ panicked' = [panicked EXCEPT ![Host] = TRUE]
    /\ open_terminal' = Tail(open_terminal)
    /\ local_handles' = [local_handles EXCEPT ![Host] = AfterReadWith(@)]
    /\ UNCHANGED <<alive, observers, next_entity_id, remote_ids, remote_id, collaborators,
                   update_terminals, frameVars>>

\* ---------------------------------------------------------- specifications
\* Every call and handler of terminals.rs, with every outcome of the builder,
\* the venv detection and the transport. The guest whose window opens remote
\* terminals is the one that calls open_remote_terminal; the other guest
\* follows the directory.
Next ==
    \/ \E p \in Projects, builder_ok \in BOOLEAN, venv \in VenvCases,
          send_ok \in BOOLEAN :
          CreateTerminal(p, builder_ok, venv, send_ok)
    \/ \E id \in EntityIds : DropTerminal(id)
    \/ \E p \in Projects, id \in EntityIds : ReleaseObserver(p, id)
    \/ ShareProject
    \/ \E g \in Guests : HandleUpdateTerminals(g)
    \/ \E g \in Viewers, id \in RequestIds, send_ok \in BOOLEAN :
          OpenRemoteTerminal(g, id, send_ok)
    \/ HandleOpenTerminal

Spec == Init /\ [][Next]_vars

\* A project that is shared before its first terminal is created, over a
\* transport that delivers every message it is given.
NextShared ==
    \/ \E p \in Projects, builder_ok \in BOOLEAN, venv \in VenvCases :
          CreateTerminal(p, builder_ok, venv, TRUE)
    \/ \E id \in EntityIds : DropTerminal(id)
    \/ \E p \in Projects, id \in EntityIds : ReleaseObserver(p, id)
    \/ \E g \in Guests : HandleUpdateTerminals(g)
    \/ \E g \in Viewers, id \in RequestIds : OpenRemoteTerminal(g, id, TRUE)
    \/ HandleOpenTerminal

SharedSpec == InitShared /\ [][NextShared]_vars

\* A project that is shared while it runs, first terminal created before or
\* after, over a transport that delivers every message it is given: what
\* create_terminal hands to client.send is what reaches the guests' queues.
NextReliable ==
    \/ \E p \in Projects, builder_ok \in BOOLEAN, venv \in VenvCases :
          CreateTerminal(p, builder_ok, venv, TRUE)
    \/ \E id \in EntityIds : DropTerminal(id)
    \/ \E p \in Projects, id \in EntityIds : ReleaseObserver(p, id)
    \/ ShareProject
    \/ \E g \in Guests : HandleUpdateTerminals(g)
    \/ \E g \in Viewers, id \in RequestIds : OpenRemoteTerminal(g, id, TRUE)
    \/ HandleOpenTerminal

ReliableSpec == Init /\ [][NextReliable]_vars

\* -------------------------------------------------------------- properties
\* The ids of the registry entries of the host whose terminal is alive.
LiveIds == {id \in Range(local_handles[Host]) : id \in alive}

\* The host has no terminal that was dropped and whose release is still to be
\* observed: left alone, the registry does not change any more.
RegistrySettled == \A o \in observers : o[2] \in alive

\* This step is guest g's handling of the oldest UpdateTerminals message.
AppliesUpdate(g) ==
    /\ update_terminals[g] # <<>>
    /\ update_terminals'[g] = Tail(update_terminals[g])

\* This step is the host's handling of the oldest OpenTerminal request.
HandlesOpenTerminal ==
    /\ open_terminal # <<>>
    /\ open_terminal' = Tail(open_terminal)

\* C1: once no UpdateTerminals message is in flight and the host's registry
\* changes no more, every guest's cached directory is the ordered list of the
\* ids in the host's registry.
C1_DirectoryConvergence ==
    \A g \in Guests :
        (update_terminals[g] = <<>> /\ RegistrySettled)
            => shared_terminals(g) = Snapshot(local_handles[Host])

\* C2: every step that changes the membership of the host's registry appends,
\* for every guest, one UpdateTerminals message that lists the ids of the
\* registry as it is right after the step.
C2_EveryChangeBroadcasts ==
    [][Snapshot(local_handles'[Host]) # Snapshot(local_handles[Host])
         => \A g \in collaborators :
               update_terminals'[g] =
                   Append(update_terminals[g],
                          UpdateTerminals(remote_id[Host], local_handles'[Host]))]_vars

\* C3: the id of a terminal that was destroyed (dropped, its release observed)
\* is no longer in the host's registry and, once the directory updates in
\* flight are applied, in no guest's cached directory.
C3_DestroyedIdDisappears ==
    \A id \in EntityIds :
        (id < next_entity_id /\ id \notin alive /\ <<Host, id>> \notin observers)
            => /\ id \notin Range(local_handles[Host])
               /\ \A g \in Guests :
                     update_terminals[g] = <<>> => id \notin Range(shared_terminals(g))

\* C4: the cached directory is empty until a message is applied; a step that
\* handles an UpdateTerminals message leaves it equal to that message's
\* terminals, whatever it held; no other step changes it.
C4_WholesaleReplacement ==
    /\ \A g \in Guests : shared_terminals(g) = <<>>
    /\ [][\A g \in Guests :
            IF AppliesUpdate(g)
            THEN shared_terminals(g)' = Head(update_terminals[g]).terminals
            ELSE shared_terminals(g)' = shared_terminals(g)]_vars

\* A guest has just applied a message that lists two ids, the last in flight.
C4_Witness ==
    /\ last.op = "handle_update_terminals"
    /\ Len(shared_terminals(last.by)) = 2
    /\ update_terminals[last.by] = <<>>

\* C5: create_terminal called on a guest's project returns an error, creates
\* no terminal, leaves every registry unchanged and sends no message.
C5_GuestCreateFails ==
    [][(last'.op = "create_terminal" /\ last'.by \in Guests)
         => /\ last'.ret = "Err"
            /\ ~last'.sent
            /\ UNCHANGED <<local_handles, alive, observers, next_entity_id,
                           update_terminals>>]_vars

\* A guest called create_terminal and got the error, while the host has a
\* terminal of its own.
C5_Witness ==
    /\ last.op = "create_terminal"
    /\ last.by \in Guests
    /\ last.ret = "Err"
    /\ local_handles[Host] # <<>>
    /\ local_handles[last.by] = <<>>

\* C6: open_remote_terminal for an id that is not in the caller's cached
\* directory ends with NotFound, and creates no view.
C6_UnknownIdNotFound ==
    [][(/\ last'.op = "open_remote_terminal"
        /\ last'.id \notin Range(shared_terminals(last'.by)))
         => (last'.ret = "NotFound" /\ views' = views)]_vars

\* C7: the OpenTerminal handler, given an id with no live terminal in the
\* registry, returns an error; the host does not panic and no view is created.
C7_AbsentIdIsAnError ==
    [][(HandlesOpenTerminal /\ AsUsize(Head(open_terminal).id) \notin LiveIds)
         => /\ last'.op = "handle_open_terminal"
            /\ last'.ret = "Err"
            /\ ~panicked'[Host]
            /\ views' = views]_vars

\* The handler has returned the error for an id whose entry is still in the
\* registry while its terminal is gone (dropped, release not yet observed).
C7_Witness ==
    /\ last.op = "handle_open_terminal"
    /\ last.ret = "Err"
    /\ last.id \in Range(local_handles[Host])
    /\ last.id \notin alive
    /\ ~panicked[Host]

\* C8: the OpenTerminal handler, given the id of a terminal that is live in
\* the registry, returns an OpenTerminalResponse.
C8_LiveIdIsAnswered ==
    [][(HandlesOpenTerminal /\ AsUsize(Head(open_terminal).id) \in LiveIds)
         => /\ last'.op = "handle_open_terminal"
            /\ last'.ret = "Ok"
            /\ ~panicked'[Host]]_vars

\* C9: a guest whose open_remote_terminal has sent its request for a terminal
\* live on the host awaits the response or holds the view it returned.
C9_AttachReturnsView ==
    (/\ last.op = "open_remote_terminal"
     /\ last.sent
     /\ last.id \in LiveIds)
        => \/ last.ret = "Pending"
           \/ last.ret = "Ok" /\ last.id \in DOMAIN views[last.by]

C12_NoDuplicateIds ==
    /\ [](\A p \in Projects : \A i, j \in DOMAIN local_handles[p] :
            local_handles[p][i] = local_handles[p][j] => i = j)
    /\ [][(last'.op = "create_terminal" /\ last'.ret = "Ok")
            => /\ last'.id \notin alive
               /\ last'.id \notin Range(local_handles[last'.by])
               /\ last'.id \in alive']_vars

\* A second terminal was created while the first is still live and registered.
C12_Witness ==
    /\ last.op = "create_terminal"
    /\ last.ret = "Ok"
    /\ Len(local_handles[Host]) = 2
    /\ Range(local_handles[Host]) \subseteq alive

\* C15: a registry entry does not keep its terminal alive (the terminal can be
\* gone while its entry is still there), and once the release of a terminal
\* was observed no registry holds an entry with its id.
C15_RegistryHoldsNoTerminal ==
    /\ [][\A id \in EntityIds :
            (id \in alive /\ id \notin alive')
                => /\ id \in Range(local_handles'[Host])
                   /\ Lookup(local_handles'[Host], id, alive') = <<>>]_vars
    /\ [](\A id \in EntityIds :
            (id < next_entity_id /\ id \notin alive /\ <<Host, id>> \notin observers)
                => \A p \in Projects : id \notin Range(local_handles[p]))

\* The first of two terminals was dropped and released; the second is still in
\* the registry.
C15_Witness ==
    /\ last.op = "observe_release"
    /\ last.id = 1
    /\ last.notified
    /\ local_handles[Host] = <<2>>

\* C16: a create_terminal that succeeds appends the new terminal's handle at
\* the end of the registry, with the entries before it as they were, registers
\* its release observer, and returns the live terminal of that handle.
C16_CreateAppendsOne ==
    [][(last'.op = "create_terminal" /\ last'.ret = "Ok")
         => LET p == last'.by
                id == last'.id
            IN  /\ Len(local_handles'[p]) = Len(local_handles[p]) + 1
                /\ local_handles'[p][Len(local_handles'[p])] = id
                /\ \A i \in DOMAIN local_handles[p] :
                      local_handles'[p][i] = local_handles[p][i]
                /\ observers' = observers \cup {<<p, id>>}
                /\ Upgrade(id, alive') = <<id>>]_vars

\* A terminal was created behind an entry already in the registry.
C16_Witness ==
    /\ last.op = "create_terminal"
    /\ last.ret = "Ok"
    /\ last.id = 2
    /\ local_handles[Host] = <<1, 2>>

\* C17: for the directory a guest holds and the messages in flight to it,
\* applying a message twice gives what applying it once gives, and applying
\* the second message alone gives what applying the first and then the second
\* gives.
C17_IdempotentSelfHealing ==
    \A g \in Guests :
        /\ update_terminals[g] # <<>>
              => LET m == Head(update_terminals[g]).terminals
                 IN  ApplyUpdate(ApplyUpdate(shared_terminals(g), m), m)
                         = ApplyUpdate(shared_terminals(g), m)
        /\ Len(update_terminals[g]) >= 2
              => LET m1 == update_terminals[g][1].terminals
                     m2 == update_terminals[g][2].terminals
                 IN  ApplyUpdate(shared_terminals(g), m2)
                         = ApplyUpdate(ApplyUpdate(shared_terminals(g), m1), m2)

\* Two different directory updates are in flight to a guest.
C17_Witness ==
    \E g \in Guests :
        /\ Len(update_terminals[g]) = 2
        /\ update_terminals[g][1].terminals # update_terminals[g][2].terminals
        /\ update_terminals[g][1].terminals # <<>>

\* C13: a call of open_remote_terminal sends at most one OpenTerminal message,
\* and a call whose attach cannot succeed (the send failed, or the id has no
\* live terminal on the host) hands the failure to its caller, at once or when
\* the awaited answer comes.
C13_FailureSurfacedOnce ==
    [][last'.op = "open_remote_terminal"
         => /\ Len(open_terminal') <= Len(open_terminal) + 1
            /\ (~last'.sent \/ last'.id \notin LiveIds)
                  => last'.ret \in {"Err", "NotFound", "Pending"}]_vars

\* C20: when the host handles an OpenTerminal request, the call that issued it
\* is there, suspended, to take the answer, and the handler gives one: a
\* response or an error.
C20_AttachResolves ==
    [][HandlesOpenTerminal
         => /\ ~panicked[Head(open_terminal).sender]
            /\ last'.ret \in {"Ok", "Err"}]_vars

\* C19: once no directory update and no frame is in flight and the host's
\* registry changes no more, each guest's cached directory is the host's
\* registry ids and each view shows the host terminal's last_content.
C19_JointConvergence ==
    (/\ RegistrySettled
     /\ \A g \in collaborators : update_terminals[g] = <<>> /\ frames[g] = <<>>)
        => \A g \in collaborators :
              /\ shared_terminals(g) = Snapshot(local_handles[Host])
              /\ \A id \in DOMAIN views[g] : views[g][id] = content[id]

\* This step is a create_terminal of the shared host that got past the builder.
CreatesShared ==
    /\ last'.op = "create_terminal"
    /\ last'.by = Host
    /\ last'.id # 0
    /\ remote_id[Host] # None

\* C21: a create_terminal of the shared host hands at most one UpdateTerminals
\* message per guest to the transport, and when the send fails the call
\* returns the failure to its caller.
C21_SendFailureSurfaced ==
    [][CreatesShared
         => /\ \A g \in Guests :
                 Len(update_terminals'[g]) <= Len(update_terminals[g]) + 1
            /\ ~last'.sent => last'.ret = "Err"]_vars

\* This step ends in a failure: an error returned or a panic.
Fails == last' # last /\ last'.ret \in {"Err", "NotFound", "panic"}

\* C22: a step that fails leaves the registry, every cached directory, every
\* terminal and every view as they were, and stops no participant: whoever
\* could handle messages before still does.
C22_FailureIsContained ==
    [][Fails
         => /\ UNCHANGED <<local_handles, alive, observers, remote_ids>>
            /\ UNCHANGED <<content, views, update_terminals>>
            /\ panicked' = panicked]_vars

\* This step is an operation of guest g: a call on its project or its
\* handling of a message.
GuestStep(g) == last' # last /\ last'.by = g

\* C23: an operation of a guest leaves the host's registry and the host's
\* terminals as they are, creates and destroys no terminal, and leaves the
\* cached directory, the views and the incoming messages of every other guest
\* as they are.
C23_GuestsOwnOnlyTheirState ==
    [][\A g \in Guests :
         GuestStep(g)
            => /\ local_handles' = local_handles
               /\ alive' = alive
               /\ observers' = observers
               /\ content' = content
               /\ \A other \in Guests \ {g} :
                     /\ remote_ids'[other] = remote_ids[other]
                     /\ views'[other] = views[other]
                     /\ update_terminals'[other] = update_terminals[other]]_vars

\* A guest applied a directory update while the host has a live terminal and
\* the other guest has not applied it yet.
C23_Witness ==
    /\ last.op = "handle_update_terminals"
    /\ last.by \in Guests
    /\ LiveIds # {}
    /\ remote_ids[last.by] # <<>>
    /\ \E other \in Guests \ {last.by} :
          remote_ids[other] = <<>> /\ update_terminals[other] # <<>>

\* The ids the host advertised to guest g: those of the snapshots in flight to
\* it and of its cached directory.
Advertised(g) ==
    Range(remote_ids[g])
        \cup UNION {Range(update_terminals[g][i].terminals) :
                        i \in DOMAIN update_terminals[g]}

\* C24: an id the host advertised in a snapshot, sent back as it is while its
\* terminal is alive, is resolved by the host's lookup to that terminal.
C24_IdSurvivesRoundTrip ==
    \A g \in Guests : \A id \in Advertised(g) :
        id \in alive
           => Lookup(local_handles[Host], AsUsize(id), alive) = <<id>>

\* A guest sent back an id of its cached directory, other than the first the
\* host gave, and the request is in flight while the terminal is alive.
C24_Witness ==
    \E i \in DOMAIN open_terminal :
        /\ open_terminal[i].id \in Range(remote_ids[open_terminal[i].sender])
        /\ open_terminal[i].id \in alive
        /\ open_terminal[i].id = MaxTerminals

\* This step is a create_terminal of the host that got past the builder.
Creates == last'.op = "create_terminal" /\ last'.by = Host /\ last'.id # 0

\* The message this step put last in the queue to guest g.
Newest(g) == update_terminals'[g][Len(update_terminals'[g])]

\* C27: over a transport that delivers what it is given, a create_terminal
\* of the host sends an UpdateTerminals message exactly when the project has
\* a remote id: without one no queue changes; with one, one message goes to
\* every guest, and it carries the project id and every id then in the
\* registry, whenever created.
C27_AdvertisedWhenShared ==
    [][Creates
         => /\ last'.sent <=> remote_id[Host] # None
            /\ remote_id[Host] = None => update_terminals' = update_terminals
            /\ remote_id[Host] # None
                 => \A g \in collaborators :
                       /\ update_terminals'[g]
                             = Append(update_terminals[g], Newest(g))
                       /\ Newest(g).project_id = remote_id[Host]
                       /\ Range(Newest(g).terminals)
                             = Range(local_handles[Host]) \cup {last'.id}]_vars

\* The first snapshot on its way to a guest that was told of no terminal
\* before lists two terminals: the first was created, without a message,
\* before the project was shared.
C27_Witness ==
    /\ last.op = "create_terminal"
    /\ last.sent
    /\ \E g \in collaborators :
          /\ remote_ids[g] = <<>>
          /\ Len(update_terminals[g]) = 1
          /\ Len(update_terminals[g][1].terminals) = 2

\* C28: the snapshot a create_terminal sends has one id per registry entry,
\* in registry order, whether or not the entry's terminal is still alive.
C28_SnapshotListsEveryEntry ==
    [][(Creates /\ last'.sent)
         => \A g \in collaborators :
              /\ Len(Newest(g).terminals) = Len(local_handles'[Host])
              /\ \A i \in DOMAIN local_handles'[Host] :
                    Newest(g).terminals[i] = local_handles'[Host][i]]_vars

\* A snapshot was just sent that lists, before the new terminal, the id of a
\* terminal that was dropped and not yet released: the lookup of an
\* OpenTerminal request for that id finds nothing.
C28_Witness ==
    /\ last.op = "create_terminal"
    /\ last.sent
    /\ \E g \in collaborators :
          \E i \in DOMAIN update_terminals[g] :
            \E id \in Range(update_terminals[g][i].terminals) :
              /\ i = Len(update_terminals[g])
              /\ id \notin alive
              /\ Lookup(local_handles[Host], AsUsize(id), alive) = <<>>

\* The registries the release observer may find, with and without repeated
\* ids, of up to three entries: enough for an entry before and one behind the
\* removed one, and for an id that comes first and last.
RegistryIds == 1..(MaxTerminals + 1)
Registries == UNION {[1..n -> RegistryIds] : n \in 0..(MaxTerminals + 1)}

\* after is before without its first entry with the id, or before itself
\* when no entry has the id.
FirstRemoved(before, id, after) ==
    IF \A i \in DOMAIN before : before[i] # id
    THEN after = before
    ELSE LET k == CHOOSE i \in DOMAIN before :
                    before[i] = id /\ \A j \in 1..(i - 1) : before[j] # id
         IN  /\ Len(after) = Len(before) - 1
             /\ \A j \in 1..(k - 1) : after[j] = before[j]
             /\ \A j \in k..Len(after) : after[j] = before[j + 1]

\* This step is the release observer of project p for terminal id.
ReleaseRuns(p, id) == <<p, id>> \in observers /\ <<p, id>> \notin observers'

\* C30: for every registry and id, the release observer's removal takes out
\* the first entry with the id and leaves the others in their order, and it
\* notifies exactly when there is such an entry: with none it changes nothing
\* and notifies nobody. A release observer that runs does that to its own
\* registry, leaves the other registries alone and sends no message.
C30_ReleaseRemovesFirstOnly ==
    /\ \A handles \in Registries : \A id \in RegistryIds :
          /\ FirstRemoved(handles, id, ReleaseRemove(handles, id))
          /\ ReleaseNotifies(handles, id) <=> id \in Range(handles)
    /\ [][\A p \in Projects : \A id \in EntityIds :
            ReleaseRuns(p, id)
               => /\ FirstRemoved(local_handles[p], id, local_handles'[p])
                  /\ \A q \in Projects \ {p} : local_handles'[q] = local_handles[q]
                  /\ last'.notified <=> id \in Range(local_handles[p])
                  /\ ~last'.sent
                  /\ update_terminals' = update_terminals]_vars

\* The first of two terminals was released while the second, created after
\* it, stays: the entry behind the removed one moved up.
C30_Witness ==
    /\ last.op = "observe_release"
    /\ last.notified
    /\ local_handles[Host] # <<>>
    /\ \A i \in DOMAIN local_handles[Host] : local_handles[Host][i] > last.id

\* C31: a guest that handles an UpdateTerminals message puts the payload, an
\* empty one too, in its cached directory and returns success; it leaves
\* every registry, every terminal and every other guest's directory as they
\* are and sends nothing.
C31_UpdateTouchesOnlyDirectory ==
    [][\A g \in Guests :
         AppliesUpdate(g)
            => /\ remote_ids'[g] = Head(update_terminals[g]).terminals
               /\ \A p \in Projects \ {g} : remote_ids'[p] = remote_ids[p]
               /\ UNCHANGED <<local_handles, alive, observers>>
               /\ last'.ret = "Ok"
               /\ ~last'.sent
               /\ open_terminal' = open_terminal
               /\ \A h \in Guests \ {g} : update_terminals'[h] = update_terminals[h]
               /\ ApplyUpdate(remote_ids[g], <<>>) = <<>>]_vars

\* A guest handled the last snapshot in flight to it, which lists as many
\* terminals as the host's registry holds; the guest's own registry is empty.
C31_Witness ==
    /\ last.op = "handle_update_terminals"
    /\ Len(remote_ids[last.by]) = MaxTerminals
    /\ update_terminals[last.by] = <<>>
    /\ Len(local_handles[Host]) = MaxTerminals
    /\ local_handles[last.by] = <<>>

\* C32: the host's handling of an OpenTerminal request, whether the lookup
\* finds the terminal or not, leaves the registry's entries and their order,
\* the terminals and the release observers as they are and sends no
\* UpdateTerminals message.
C32_OpenTerminalReadsOnly ==
    [][HandlesOpenTerminal
         => /\ local_handles' = local_handles
            /\ alive' = alive
            /\ observers' = observers
            /\ update_terminals' = update_terminals
            /\ remote_ids' = remote_ids
            /\ ~last'.sent]_vars

\* The handler found no terminal for an id whose entry, of a dropped
\* terminal, is still the first of the registry after it.
C32_Witness ==
    /\ last.op = "handle_open_terminal"
    /\ last.ret = "Err"
    /\ local_handles[Host] # <<>>
    /\ local_handles[Host][1] = last.id
    /\ <<Host, last.id>> \in observers

====
